---- MODULE Spec2Model ----
(***************************************************************************)
(* A model of scripts/bearer_proxy.py: one client connection served by     *)
(* handle_client, from the first read of the client's request through the  *)
(* header-strategy probing of the upstream proxy to the relay (pump) and   *)
(* its teardown.  Bytes are one-character strings, byte strings are        *)
(* sequences of them; str and bytes are not distinguished (every character *)
(* used is ASCII, where encode/decode of latin-1 and utf-8 do not change   *)
(* the character sequence).                                                *)
(***************************************************************************)
EXTENDS Integers, Sequences, FiniteSets, TLC

\* ------------------------------------------------------------------------
\* Bounds of the model
\* ------------------------------------------------------------------------
\* number of I/O failures the environment may inject in one run
MaxFaults == 1
\* number of select() calls the relay loop is followed for
MaxRounds == 3

\* ------------------------------------------------------------------------
\* Byte-string helpers (Python's bytes/str operations)
\* ------------------------------------------------------------------------
Take(s, n) == SubSeq(s, 1, IF n < Len(s) THEN n ELSE Len(s))
Drop(s, n) == SubSeq(s, n + 1, Len(s))

\* s.startswith(p)
startswith(s, p) == Len(p) <= Len(s) /\ SubSeq(s, 1, Len(p)) = p

\* s.find(sub) + 1, or 0 when sub does not occur in s
find(s, sub) ==
  LET hits == {k \in 1..(Len(s) - Len(sub) + 1) : SubSeq(s, k, k + Len(sub) - 1) = sub}
  IN  IF hits = {} THEN 0 ELSE CHOOSE k \in hits : \A j \in hits : k <= j

\* sub in s
Contains(s, sub) == find(s, sub) # 0

\* s.split(sep, maxsplit); maxsplit = -1 splits at every occurrence
RECURSIVE split(_, _, _)
split(s, sep, maxsplit) ==
  LET k == find(s, sep)
  IN  IF k = 0 \/ maxsplit = 0
      THEN <<s>>
      ELSE <<SubSeq(s, 1, k - 1)>> \o split(Drop(s, k + Len(sep) - 1), sep, maxsplit - 1)

\* "".join(parts)
RECURSIVE join(_)
join(parts) == IF parts = << >> THEN << >> ELSE Head(parts) \o join(Tail(parts))

SP == <<" ">>
CRLF == <<"\r","\n">>
CRLFCRLF == <<"\r","\n","\r","\n">>

\* ------------------------------------------------------------------------
\* base64.b64encode, on the characters the credentials of the model use
\* ------------------------------------------------------------------------
ord(c) ==
  CASE c = "a" -> 97  [] c = "b" -> 98  [] c = "j" -> 106 [] c = "t" -> 116
    [] c = "u" -> 117 [] c = "w" -> 119 [] c = "_" -> 95  [] c = ":" -> 58

B64Alphabet == <<"A","B","C","D","E","F","G","H","I","J","K","L","M","N","O","P","Q","R","S","T","U","V","W","X","Y","Z","a","b","c","d","e","f","g","h","i","j","k","l","m","n","o","p","q","r","s","t","u","v","w","x","y","z","0","1","2","3","4","5","6","7","8","9","+","/">>

B64Char(n) == B64Alphabet[(n % 64) + 1]

RECURSIVE b64encode(_)
b64encode(raw) ==
  IF raw = << >> THEN << >>
  ELSE IF Len(raw) = 1 THEN
    LET n == ord(raw[1]) * 65536
    IN  <<B64Char(n \div 262144), B64Char(n \div 4096), "=", "=">>
  ELSE IF Len(raw) = 2 THEN
    LET n == ord(raw[1]) * 65536 + ord(raw[2]) * 256
    IN  <<B64Char(n \div 262144), B64Char(n \div 4096), B64Char(n \div 64), "=">>
  ELSE
    LET n == ord(raw[1]) * 65536 + ord(raw[2]) * 256 + ord(raw[3])
    IN  <<B64Char(n \div 262144), B64Char(n \div 4096), B64Char(n \div 64), B64Char(n)>>
        \o b64encode(Drop(raw, 3))

\* ------------------------------------------------------------------------
\* Pure functions of bearer_proxy.py
\* ------------------------------------------------------------------------
\* mk_basic(user, pwd)
mk_basic(user, pwd) == <<"B","a","s","i","c"," ">> \o b64encode(user \o <<":">> \o pwd)

\* first_line_status(hdr)
first_line_status(hdr) == IF hdr # << >> THEN split(hdr, CRLF, 1)[1] ELSE << >>

\* the token normalisation of handle_client: strip a leading "jwt_"
JwtPrefix == <<"j","w","t","_">>

\* a variant that removes every "jwt_" the token starts with
normalize_token_every(bearer_raw) ==
  IF startswith(bearer_raw, JwtPrefix)
  THEN IF startswith(Drop(bearer_raw, 4), JwtPrefix) THEN Drop(bearer_raw, 8)
       ELSE Drop(bearer_raw, 4)
  ELSE bearer_raw

normalize_token(bearer_raw) ==
  IF startswith(bearer_raw, JwtPrefix) THEN Drop(bearer_raw, 4) ELSE bearer_raw

\* Python's None; only its truthiness is used (if basic_hdr:), and the empty
\* string is never a Basic header, so None is the empty sequence
None == << >>

PA == <<"P","r","o","x","y","-","A","u","t","h","o","r","i","z","a","t","i","o","n",":"," ">>
AUTH == <<"A","u","t","h","o","r","i","z","a","t","i","o","n",":"," ">>
BEARER == <<"B","e","a","r","e","r"," ">>

\* a variant that tries Basic alone before Bearer with Authorization
build_headers_sets_basic_early(tok, basic, also) ==
  LET s1 == << <<PA \o BEARER \o tok>> >>
      s2 == IF also THEN << <<PA \o BEARER \o tok, AUTH \o BEARER \o tok>> >> ELSE << >>
      s3 == IF basic # None THEN << <<PA \o basic>> >> ELSE << >>
      s4 == IF basic # None /\ also THEN << <<PA \o basic, AUTH \o basic>> >> ELSE << >>
  IN  s1 \o s3 \o s2 \o s4

\* the header strategies of handle_client, in the order they are tried
build_headers_sets(tok, basic, also) ==
  LET s1 == << <<PA \o BEARER \o tok>> >>
      s2 == IF also THEN << <<PA \o BEARER \o tok, AUTH \o BEARER \o tok>> >> ELSE << >>
      s3 == IF basic # None THEN << <<PA \o basic>> >> ELSE << >>
      s4 == IF basic # None /\ also THEN << <<PA \o basic, AUTH \o basic>> >> ELSE << >>
  IN  s1 \o s2 \o s3 \o s4

\* the request try_connect_with_headers sends
connect_request(hostport, headers) ==
  <<"C","O","N","N","E","C","T"," ">> \o hostport \o <<" ","H","T","T","P","/","1",".","1","\r","\n">>
  \o <<"H","o","s","t",":"," ">> \o hostport \o CRLF
  \o join([k \in 1..Len(headers) |-> headers[k] \o CRLF])
  \o <<"P","r","o","x","y","-","C","o","n","n","e","c","t","i","o","n",":"," ","k","e","e","p","-","a","l","i","v","e","\r","\n">>
  \o <<"C","o","n","n","e","c","t","i","o","n",":"," ","k","e","e","p","-","a","l","i","v","e","\r","\n","\r","\n">>

\* the success test of handle_client: b" 200 " in status
accepts(st) == Contains(st, <<" ","2","0","0"," ">>)

Synthetic200 == <<"H","T","T","P","/","1",".","1"," ","2","0","0"," ","C","o","n","n","e","c","t","i","o","n"," ","E","s","t","a","b","l","i","s","h","e","d","\r","\n","\r","\n">>
BadGateway == <<"H","T","T","P","/","1",".","1"," ","5","0","2"," ","B","a","d"," ","G","a","t","e","w","a","y">>
InternalError == <<"H","T","T","P","/","1",".","1"," ","5","0","0"," ","I","n","t","e","r","n","a","l"," ","S","e","r","v","e","r"," ","E","r","r","o","r","\r","\n","\r","\n">>

\* recv sizes and the header limit
RecvUntilChunk == 4096
RecvUntilLimit == 65536
PumpChunk == 65536

\* ------------------------------------------------------------------------
\* The environment: configuration, what the client sends, what the upstream
\* proxy answers.  A peer's transmission is a sequence of segments; one recv
\* returns (at most the requested size of) the next segment, and an empty
\* sequence of segments is a peer that has closed (recv returns b"").
\* ------------------------------------------------------------------------
Bearers == {<<"a","b">>, <<"j","w","t","_","a","b">>, <<"j","w","t","_","j","w","t","_","a","b">>}
Users == {<< >>, <<"u">>}

ConnectHead == <<"C","O","N","N","E","C","T"," ","h",":","1"," ","H","T","T","P","/","1",".","1","\r","\n","\r","\n">>
GetHead == <<"G","E","T"," ","h","t","t","p",":","/","/","h","/"," ","H","T","T","P","/","1",".","1","\r","\n","P","r","o","x","y","-","A","u","t","h","o","r","i","z","a","t","i","o","n",":"," ","B","o","g","u","s"," ","z","\r","\n","\r","\n">>

ClientInputs ==
  { << >>,
    << <<"G","E","T","\r","\n","\r","\n">> >>,
    << <<"G","E","T"," ","/","\r","\n","\r","\n">> >>,
    << ConnectHead >>,
    << <<"C","O","N","N","E","C","T"," ","h",":","1"," ","H","T">>, <<"T","P","/","1",".","1","\r","\n","\r","\n">>, <<"x">> >>,
    << ConnectHead \o <<"x">>, <<"y">> >>,
    << GetHead >>,
    << <<"C","O","N","N","E","C","T"," ","h",":","1"," ","H","T","T","P","/","1",".","1","\r","\n">> >> }

UpstreamAnswers ==
  { << <<"H","T","T","P","/","1",".","1"," ","4","0","7"," ","P","r","o","x","y"," ","A","u","t","h","e","n","t","i","c","a","t","i","o","n"," ","R","e","q","u","i","r","e","d","\r","\n","\r","\n">> >>,
    << <<"H","T","T","P","/","1",".","1"," ","4","0","7"," ","D","e","n","i","e","d","\r","\n","P","r","o","x","y","-","A","u","t","h","e","n","t","i","c","a","t","e",":"," ","B","a","s","i","c","\r","\n","\r","\n">> >>,
    << <<"H","T","T","P","/","1",".","1"," ","2","0","0"," ","O","K","\r","\n","\r","\n">> >>,
    << <<"H","T","T","P","/","1",".","1"," ","2","0","0"," ","T","u","n","n","e","l"," ","r","e","a","d","y","\r","\n","V","i","a",":"," ","p","\r","\n","\r","\n">>, <<"s">> >>,
    << <<"H","T","T","P","/","1",".","1"," ","2","0","0"," ","O","K","\r","\n","\r","\n","r">>, <<"s">> >>,
    << <<"H","T","T","P","/","1",".","1"," ","2","0","0","\r","\n","\r","\n">> >>,
    << <<"H","T","T","P","/","1",".","1"," ","2","0","0"," ","O","K","\r","\n">> >>,
    << >> }

VARIABLES
  bearer,            \* args.bearer, passed to handle_client as bearer_raw
  basic_hdr,         \* the Basic header value built at startup, or None
  also_auth_header,  \* --also-auth-header
  pc,                \* position of handle_client
  client,            \* the client socket
  clientSegs,        \* segments the client has yet to send
  clientRecvd,       \* all bytes recv has returned from the client socket
  clientWrites,      \* the sendall calls that wrote to the client, in order
  first,             \* handle_client: first
  token,             \* handle_client: token
  headers_sets,      \* handle_client: headers_sets
  hs_i,              \* index of hs in the for loop over headers_sets
  conns,             \* every upstream socket create_connection returned
  corp,              \* handle_client: corp, an index into conns (0: unbound)
  corpSegs,          \* segments the peer of corp has yet to send
  corpRecvd,         \* all bytes recv has returned from corp
  corpRelayed,       \* bytes pump wrote to corp
  req,               \* try_connect_with_headers: req
  resp,              \* handle_client: resp
  ok,                \* handle_client: ok
  last_status,       \* handle_client: last_status
  lastObserved,      \* the last non-empty status line an attempt returned
  n407,              \* number of attempts answered with a 407 status line
  r,                 \* pump: r, the sockets select reported readable
  exc,               \* an exception is propagating out of pump
  rounds,            \* number of select calls made
  faults             \* number of I/O failures injected

hvars == <<bearer, basic_hdr, also_auth_header, pc, client, clientSegs, clientRecvd,
          clientWrites, first, token, headers_sets, hs_i, conns, corp, corpSegs,
          corpRecvd, corpRelayed, req, resp, ok, last_status, lastObserved, n407,
          r, exc, rounds, faults>>

\* serve: the acceptor, its handler threads and the sockets of the process
VARIABLES
  connected,         \* number of clients that have connected to srv
  accepted,          \* number of srv.accept() calls that have returned
  threads,           \* the handler threads serve has started
  socks,             \* every socket of the process, with the threads that used it
  peers              \* what the peers of each handler have done so far

serveVars == <<connected, accepted, threads, socks, peers>>

vars == <<hvars, serveVars>>

cfgVars == <<bearer, basic_hdr, also_auth_header>>

\* ------------------------------------------------------------------------
\* Sockets
\* ------------------------------------------------------------------------
\* a socket: closed by this program, broken (every I/O call on it raises),
\* the calls made on it, and for an upstream socket the number of requests
\* sent on it, the outcome of its attempt and whether pump was given it
NewSock == [closed |-> FALSE, broken |-> FALSE, log |-> << >>,
            reqs |-> 0, verdict |-> "none", relay |-> FALSE]

Logged(s, op) == [s EXCEPT !.log = Append(@, op)]
Closed(s) == [Logged(s, "close") EXCEPT !.closed = TRUE]
Broken(s, op) == [Logged(s, op) EXCEPT !.broken = TRUE]

\* whether an I/O call on s may raise: always when the socket is closed or
\* broken, otherwise when the environment injects a failure
FailChoices(s) ==
  IF s.closed \/ s.broken THEN {TRUE}
  ELSE IF faults < MaxFaults THEN {FALSE, TRUE} ELSE {FALSE}

Injected(s) == IF s.closed \/ s.broken THEN 0 ELSE 1

\* socket.create_connection may fail
ConnectFailChoices == IF faults < MaxFaults THEN {FALSE, TRUE} ELSE {FALSE}

\* sock.recv(n) on a peer with segments segs: the bytes returned and what
\* the peer has left to send
recv(segs, n) ==
  IF segs = << >> THEN [data |-> << >>, segs |-> << >>]
  ELSE IF Len(Head(segs)) <= n THEN [data |-> Head(segs), segs |-> Tail(segs)]
  ELSE [data |-> Take(Head(segs), n), segs |-> <<Drop(Head(segs), n)>> \o Tail(segs)]

\* one iteration of the loop of recv_until(sock), entered with sep not in
\* buf: the buffer after it, what the peer has left, and whether the loop
\* ends (empty chunk, limit exceeded, or sep now in buf)
recv_until(buf, segs) ==
  LET rc == recv(segs, RecvUntilChunk)
      nb == buf \o rc.data
  IN  [buf |-> nb, segs |-> rc.segs,
       done |-> rc.data = << >> \/ Len(nb) > RecvUntilLimit \/ Contains(nb, CRLFCRLF)]

ProxyWrite(data) == Append(clientWrites, [src |-> "proxy", data |-> data])
RelayWrite(data) == Append(clientWrites, [src |-> "relay", data |-> data])

\* ------------------------------------------------------------------------
\* Initial state: serve has accepted a client and started handle_client
\* with the configuration __main__ computed
\* ------------------------------------------------------------------------
\* the local state handle_client starts with
HandlerStart ==
  /\ pc = "recv_first"
  /\ client = NewSock
  /\ clientRecvd = << >>
  /\ clientWrites = << >>
  /\ first = << >>
  /\ token = << >>
  /\ headers_sets = << >>
  /\ hs_i = 0
  /\ conns = << >>
  /\ corp = 0
  /\ corpSegs = << >>
  /\ corpRecvd = << >>
  /\ corpRelayed = << >>
  /\ req = << >>
  /\ resp = << >>
  /\ ok = FALSE
  /\ last_status = << >>
  /\ lastObserved = << >>
  /\ n407 = 0
  /\ r = {}
  /\ exc = FALSE
  /\ rounds = 0
  /\ faults = 0

\* serve before any client has connected
ServeStart ==
  /\ connected = 0
  /\ accepted = 0
  /\ threads = << >>
  /\ socks = << >>
  /\ peers = << >>

Init ==
  /\ bearer \in Bearers
  /\ \E u \in Users, with_basic \in BOOLEAN :
       basic_hdr = IF with_basic /\ u # << >> THEN mk_basic(u, bearer) ELSE None
  /\ also_auth_header \in BOOLEAN
  /\ clientSegs \in ClientInputs
  /\ HandlerStart
  /\ ServeStart

\* ------------------------------------------------------------------------
\* handle_client: reading the request and preparing the strategies
\* ------------------------------------------------------------------------
\* first = recv_until(client): one recv of its loop
RecvFirst ==
  /\ pc = "recv_first"
  /\ \E fail \in FailChoices(client) :
       IF fail
       THEN /\ client' = Broken(client, "recv")
            /\ faults' = faults + Injected(client)
            /\ pc' = "except"
            /\ UNCHANGED <<clientSegs, clientRecvd, first>>
       ELSE LET ru == recv_until(first, clientSegs)
            IN  /\ client' = Logged(client, "recv")
                /\ first' = ru.buf
                /\ clientSegs' = ru.segs
                /\ clientRecvd' = ru.buf
                /\ pc' = IF ru.done THEN "check_first" ELSE "recv_first"
                /\ UNCHANGED faults
  /\ UNCHANGED <<serveVars, cfgVars, clientWrites, token, headers_sets, hs_i, conns, corp,
                 corpSegs, corpRecvd, corpRelayed, req, resp, ok, last_status,
                 lastObserved, n407, r, exc, rounds>>

\* if not first: client.close(); return -- else normalise the token and build
\* the strategies
CheckFirst ==
  /\ pc = "check_first"
  /\ IF first = << >>
     THEN /\ client' = Closed(client)
          /\ pc' = "done"
          /\ UNCHANGED <<token, headers_sets>>
     ELSE /\ token' = normalize_token(bearer)
          /\ headers_sets' = build_headers_sets(token', basic_hdr, also_auth_header)
          /\ pc' = "connect"
          /\ UNCHANGED client
  /\ UNCHANGED <<serveVars, cfgVars, clientSegs, clientRecvd, clientWrites, first, hs_i, conns,
                 corp, corpSegs, corpRecvd, corpRelayed, req, resp, ok, last_status,
                 lastObserved, n407, r, exc, rounds, faults>>

\* a variant in which a failed connect ends the handler without a response
Connect_silent ==
  /\ pc = "connect"
  /\ \E fail \in ConnectFailChoices :
       IF fail
       THEN /\ faults' = faults + 1
            /\ pc' = "done"
            /\ UNCHANGED <<conns, corp, hs_i, ok, last_status>>
       ELSE /\ conns' = Append(conns, NewSock)
            /\ corp' = Len(conns) + 1
            /\ hs_i' = 1
            /\ ok' = FALSE
            /\ last_status' = << >>
            /\ pc' = "attempt"
            /\ UNCHANGED faults
  /\ UNCHANGED <<serveVars, cfgVars, client, clientSegs, clientRecvd, clientWrites, first, token,
                 headers_sets, corpSegs, corpRecvd, corpRelayed, req, resp,
                 lastObserved, n407, r, exc, rounds>>

\* corp = socket.create_connection(...); ok = False; last_status = b""
Connect ==
  /\ pc = "connect"
  /\ \E fail \in ConnectFailChoices :
       IF fail
       THEN /\ faults' = faults + 1
            /\ pc' = "except"
            /\ UNCHANGED <<conns, corp, hs_i, ok, last_status>>
       ELSE /\ conns' = Append(conns, NewSock)
            /\ corp' = Len(conns) + 1
            /\ hs_i' = 1
            /\ ok' = FALSE
            /\ last_status' = << >>
            /\ pc' = "attempt"
            /\ UNCHANGED faults
  /\ UNCHANGED <<serveVars, cfgVars, client, clientSegs, clientRecvd, clientWrites, first, token,
                 headers_sets, corpSegs, corpRecvd, corpRelayed, req, resp,
                 lastObserved, n407, r, exc, rounds>>

\* ------------------------------------------------------------------------
\* handle_client: probing the upstream with each strategy
\* ------------------------------------------------------------------------
\* the status line of the response just read
status == first_line_status(resp)

Is407(st) == startswith(st, <<"H","T","T","P","/","1",".","1"," ","4","0","7"," ">>)

\* try_connect_with_headers(corp, hostport=first.split(b" ")[1]..., headers=hs)
\* up to corp.sendall(req); the upstream then decides what it answers
TrySend ==
  /\ pc = "attempt"
  /\ LET pieces == split(first, SP, -1)
     IN  IF Len(pieces) < 2
         THEN \* IndexError
              /\ pc' = "except"
              /\ UNCHANGED <<conns, corpSegs, corpRecvd, req, resp, faults>>
         ELSE \E fail \in FailChoices(conns[corp]) :
                /\ req' = connect_request(pieces[2], headers_sets[hs_i])
                /\ IF fail
                   THEN /\ conns' = [conns EXCEPT ![corp] = Broken(@, "sendall")]
                        /\ faults' = faults + Injected(conns[corp])
                        /\ pc' = "except"
                        /\ UNCHANGED <<corpSegs, corpRecvd, resp>>
                   ELSE /\ conns' = [conns EXCEPT ![corp] =
                                       [Logged(@, "sendall") EXCEPT !.reqs = @ + 1]]
                        /\ corpSegs' \in UpstreamAnswers
                        /\ corpRecvd' = << >>
                        /\ resp' = << >>
                        /\ pc' = "recv_resp"
                        /\ UNCHANGED faults
  /\ UNCHANGED <<serveVars, cfgVars, client, clientSegs, clientRecvd, clientWrites, first, token,
                 headers_sets, hs_i, corp, corpRelayed, ok, last_status, lastObserved,
                 n407, r, exc, rounds>>

\* resp = recv_until(corp): one recv of its loop
RecvResp ==
  /\ pc = "recv_resp"
  /\ \E fail \in FailChoices(conns[corp]) :
       IF fail
       THEN /\ conns' = [conns EXCEPT ![corp] = Broken(@, "recv")]
            /\ faults' = faults + Injected(conns[corp])
            /\ pc' = "except"
            /\ UNCHANGED <<corpSegs, corpRecvd, resp>>
       ELSE LET ru == recv_until(resp, corpSegs)
            IN  /\ conns' = [conns EXCEPT ![corp] = Logged(@, "recv")]
                /\ resp' = ru.buf
                /\ corpSegs' = ru.segs
                /\ corpRecvd' = ru.buf
                /\ pc' = IF ru.done THEN "check_status" ELSE "recv_resp"
                /\ UNCHANGED faults
  /\ UNCHANGED <<serveVars, cfgVars, client, clientSegs, clientRecvd, clientWrites, first, token,
                 headers_sets, hs_i, corp, corpRelayed, req, ok, last_status,
                 lastObserved, n407, r, exc, rounds>>

\* a variant that keeps the first status line instead of the last
NoteStatus_first ==
  /\ last_status' = IF last_status = << >> THEN status ELSE last_status
  /\ lastObserved' = IF status # << >> THEN status ELSE lastObserved
  /\ n407' = IF Is407(status) THEN n407 + 1 ELSE n407

\* what both branches after the response do: last_status = status
NoteStatus ==
  /\ last_status' = status
  /\ lastObserved' = IF status # << >> THEN status ELSE lastObserved
  /\ n407' = IF Is407(status) THEN n407 + 1 ELSE n407

\* a variant that passes the upstream's own response on to the client
TunnelEstablished_forward ==
  /\ pc = "check_status"
  /\ accepts(status)
  /\ NoteStatus
  /\ \E fail \in FailChoices(client) :
       IF fail
       THEN /\ client' = Broken(client, "sendall")
            /\ faults' = faults + Injected(client)
            /\ conns' = [conns EXCEPT ![corp].verdict = "accepted"]
            /\ pc' = "except"
            /\ UNCHANGED clientWrites
       ELSE /\ client' = Logged(client, "sendall")
            /\ clientWrites' = ProxyWrite(resp)
            /\ conns' = [conns EXCEPT ![corp].verdict = "accepted", ![corp].relay = TRUE]
            /\ pc' = "pump_select"
            /\ UNCHANGED faults
  /\ UNCHANGED <<serveVars, cfgVars, clientSegs, clientRecvd, first, token, headers_sets, hs_i,
                 corp, corpSegs, corpRecvd, corpRelayed, req, resp, ok, r, exc, rounds>>

\* if b" 200 " in status: client.sendall(200 Connection Established), then
\* pump(client, corp) is entered
TunnelEstablished ==
  /\ pc = "check_status"
  /\ accepts(status)
  /\ NoteStatus
  /\ \E fail \in FailChoices(client) :
       IF fail
       THEN /\ client' = Broken(client, "sendall")
            /\ faults' = faults + Injected(client)
            /\ conns' = [conns EXCEPT ![corp].verdict = "accepted"]
            /\ pc' = "except"
            /\ UNCHANGED clientWrites
       ELSE /\ client' = Logged(client, "sendall")
            /\ clientWrites' = ProxyWrite(Synthetic200)
            /\ conns' = [conns EXCEPT ![corp].verdict = "accepted", ![corp].relay = TRUE]
            /\ pc' = "pump_select"
            /\ UNCHANGED faults
  /\ UNCHANGED <<serveVars, cfgVars, clientSegs, clientRecvd, first, token, headers_sets, hs_i,
                 corp, corpSegs, corpRecvd, corpRelayed, req, resp, ok, r, exc, rounds>>

\* a variant that sends the next strategy on the connection just rejected
NextStrategy_reuse ==
  /\ pc = "check_status"
  /\ ~accepts(status)
  /\ NoteStatus
  /\ conns' = [conns EXCEPT ![corp].verdict = "rejected"]
  /\ hs_i' = hs_i + 1
  /\ pc' = IF hs_i + 1 > Len(headers_sets) THEN "exhausted" ELSE "attempt"
  /\ UNCHANGED <<serveVars, cfgVars, client, clientSegs, clientRecvd, clientWrites, first, token,
                 headers_sets, corp, corpSegs, corpRecvd, corpRelayed, req, resp, ok, r,
                 exc, rounds, faults>>

\* otherwise: corp.close(); corp = socket.create_connection(...); next hs
NextStrategy ==
  /\ pc = "check_status"
  /\ ~accepts(status)
  /\ NoteStatus
  /\ \E fail \in ConnectFailChoices :
       IF fail
       THEN /\ conns' = [conns EXCEPT ![corp] = [Closed(@) EXCEPT !.verdict = "rejected"]]
            /\ faults' = faults + 1
            /\ pc' = "except"
            /\ UNCHANGED <<corp, hs_i>>
       ELSE /\ conns' = Append([conns EXCEPT ![corp] =
                                   [Closed(@) EXCEPT !.verdict = "rejected"]], NewSock)
            /\ corp' = Len(conns) + 1
            /\ hs_i' = hs_i + 1
            /\ pc' = IF hs_i + 1 > Len(headers_sets) THEN "exhausted" ELSE "attempt"
            /\ UNCHANGED faults
  /\ UNCHANGED <<serveVars, cfgVars, client, clientSegs, clientRecvd, clientWrites, first, token,
                 headers_sets, corpSegs, corpRecvd, corpRelayed, req, resp, ok, r, exc,
                 rounds>>

\* if not ok: client.sendall((last_status or 502) + CRLFCRLF); corp.close();
\* client.close(); return
Exhausted ==
  /\ pc = "exhausted"
  /\ \E fail \in FailChoices(client) :
       IF fail
       THEN /\ client' = Broken(client, "sendall")
            /\ faults' = faults + Injected(client)
            /\ pc' = "except"
            /\ UNCHANGED <<clientWrites, conns>>
       ELSE /\ clientWrites' = ProxyWrite((IF last_status # << >> THEN last_status
                                           ELSE BadGateway) \o CRLFCRLF)
            /\ conns' = [conns EXCEPT ![corp] = Closed(@)]
            /\ client' = Closed(Logged(client, "sendall"))
            /\ pc' = "done"
            /\ UNCHANGED faults
  /\ UNCHANGED <<serveVars, cfgVars, clientSegs, clientRecvd, first, token, headers_sets, hs_i,
                 corp, corpSegs, corpRecvd, corpRelayed, req, resp, ok, last_status,
                 lastObserved, n407, r, exc, rounds>>

\* ------------------------------------------------------------------------
\* pump(client, corp)
\* ------------------------------------------------------------------------
\* r, _, _ = select.select(sockets, [], [], 60): any set of the two sockets
\* may be reported readable; the empty set is the 60 seconds timeout
PumpSelect ==
  /\ pc = "pump_select"
  /\ rounds < MaxRounds
  /\ r' \in SUBSET {"a", "b"}
  /\ rounds' = rounds + 1
  /\ pc' = "pump_a"
  /\ UNCHANGED <<serveVars, cfgVars, client, clientSegs, clientRecvd, clientWrites, first, token,
                 headers_sets, hs_i, conns, corp, corpSegs, corpRecvd, corpRelayed, req,
                 resp, ok, last_status, lastObserved, n407, exc, faults>>

\* if a in r: d = a.recv(65536); if not d: break; b.sendall(d)
PumpA ==
  /\ pc = "pump_a"
  /\ IF "a" \notin r
     THEN /\ pc' = "pump_b"
          /\ UNCHANGED <<client, clientSegs, clientRecvd, conns, corpRelayed, exc, faults>>
     ELSE \E fail \in FailChoices(client) :
            IF fail
            THEN /\ client' = Broken(client, "recv")
                 /\ faults' = faults + Injected(client)
                 /\ exc' = TRUE
                 /\ pc' = "pump_finally"
                 /\ UNCHANGED <<clientSegs, clientRecvd, conns, corpRelayed>>
            ELSE LET rc == recv(clientSegs, PumpChunk)
                 IN  /\ client' = Logged(client, "recv")
                     /\ clientSegs' = rc.segs
                     /\ clientRecvd' = clientRecvd \o rc.data
                     /\ IF rc.data = << >>
                        THEN /\ pc' = "pump_finally"
                             /\ UNCHANGED <<conns, corpRelayed, exc, faults>>
                        ELSE \E sfail \in FailChoices(conns[corp]) :
                               IF sfail
                               THEN /\ conns' = [conns EXCEPT ![corp] = Broken(@, "sendall")]
                                    /\ faults' = faults + Injected(conns[corp])
                                    /\ exc' = TRUE
                                    /\ pc' = "pump_finally"
                                    /\ UNCHANGED corpRelayed
                               ELSE /\ conns' = [conns EXCEPT ![corp] = Logged(@, "sendall")]
                                    /\ corpRelayed' = corpRelayed \o rc.data
                                    /\ pc' = "pump_b"
                                    /\ UNCHANGED <<exc, faults>>
  /\ UNCHANGED <<serveVars, cfgVars, clientWrites, first, token, headers_sets, hs_i, corp, corpSegs,
                 corpRecvd, req, resp, ok, last_status, lastObserved, n407, r, rounds>>

\* if b in r: d = b.recv(65536); if not d: break; a.sendall(d)
PumpB ==
  /\ pc = "pump_b"
  /\ IF "b" \notin r
     THEN /\ pc' = "pump_select"
          /\ UNCHANGED <<client, clientWrites, conns, corpSegs, corpRecvd, exc, faults>>
     ELSE \E fail \in FailChoices(conns[corp]) :
            IF fail
            THEN /\ conns' = [conns EXCEPT ![corp] = Broken(@, "recv")]
                 /\ faults' = faults + Injected(conns[corp])
                 /\ exc' = TRUE
                 /\ pc' = "pump_finally"
                 /\ UNCHANGED <<client, clientWrites, corpSegs, corpRecvd>>
            ELSE LET rc == recv(corpSegs, PumpChunk)
                 IN  /\ conns' = [conns EXCEPT ![corp] = Logged(@, "recv")]
                     /\ corpSegs' = rc.segs
                     /\ corpRecvd' = corpRecvd \o rc.data
                     /\ IF rc.data = << >>
                        THEN /\ pc' = "pump_finally"
                             /\ UNCHANGED <<client, clientWrites, exc, faults>>
                        ELSE \E sfail \in FailChoices(client) :
                               IF sfail
                               THEN /\ client' = Broken(client, "sendall")
                                    /\ faults' = faults + Injected(client)
                                    /\ exc' = TRUE
                                    /\ pc' = "pump_finally"
                                    /\ UNCHANGED clientWrites
                               ELSE /\ client' = Logged(client, "sendall")
                                    /\ clientWrites' = RelayWrite(rc.data)
                                    /\ pc' = "pump_select"
                                    /\ UNCHANGED <<exc, faults>>
  /\ UNCHANGED <<serveVars, cfgVars, clientSegs, clientRecvd, first, token, headers_sets, hs_i, corp,
                 corpRelayed, req, resp, ok, last_status, lastObserved, n407, r, rounds>>

\* a variant whose teardown forgets the client side
PumpFinally_upstream_only ==
  /\ pc = "pump_finally"
  /\ conns' = [conns EXCEPT ![corp] = Closed(Logged(@, "shutdown"))]
  /\ IF exc
     THEN pc' = "except" /\ UNCHANGED ok
     ELSE pc' = "done" /\ ok' = TRUE
  /\ UNCHANGED <<serveVars, cfgVars, client, clientSegs, clientRecvd, clientWrites, first, token,
                 headers_sets, hs_i, corp, corpSegs, corpRecvd, corpRelayed, req, resp,
                 last_status, lastObserved, n407, r, exc, rounds, faults>>

\* finally: for s in (a, b): shutdown (failure ignored), close (failure
\* ignored); a normal return continues with ok = True; break and the return
\* of handle_client, an exception continues in its except clause
PumpFinally ==
  /\ pc = "pump_finally"
  /\ client' = Closed(Logged(client, "shutdown"))
  /\ conns' = [conns EXCEPT ![corp] = Closed(Logged(@, "shutdown"))]
  /\ IF exc
     THEN pc' = "except" /\ UNCHANGED ok
     ELSE pc' = "done" /\ ok' = TRUE
  /\ UNCHANGED <<serveVars, cfgVars, clientSegs, clientRecvd, clientWrites, first, token,
                 headers_sets, hs_i, corp, corpSegs, corpRecvd, corpRelayed, req, resp,
                 last_status, lastObserved, n407, r, exc, rounds, faults>>

\* ------------------------------------------------------------------------
\* handle_client: except Exception
\* ------------------------------------------------------------------------
\* a variant with the close in the same try as the send: a failed send
\* skips it
Except_one_try ==
  /\ pc = "except"
  /\ \E fail \in FailChoices(client) :
       IF fail
       THEN /\ client' = Broken(client, "sendall")
            /\ faults' = faults + Injected(client)
            /\ UNCHANGED clientWrites
       ELSE /\ client' = Closed(Logged(client, "sendall"))
            /\ clientWrites' = ProxyWrite(InternalError)
            /\ UNCHANGED faults
  /\ exc' = FALSE
  /\ pc' = "done"
  /\ UNCHANGED <<serveVars, cfgVars, clientSegs, clientRecvd, first, token, headers_sets, hs_i,
                 conns, corp, corpSegs, corpRecvd, corpRelayed, req, resp, ok,
                 last_status, lastObserved, n407, r, rounds>>

\* try: client.sendall(500) except: pass; try: client.close() except: pass
Except ==
  /\ pc = "except"
  /\ \E fail \in FailChoices(client) :
       IF fail
       THEN /\ client' = Closed(Broken(client, "sendall"))
            /\ faults' = faults + Injected(client)
            /\ UNCHANGED clientWrites
       ELSE /\ client' = Closed(Logged(client, "sendall"))
            /\ clientWrites' = ProxyWrite(InternalError)
            /\ UNCHANGED faults
  /\ exc' = FALSE
  /\ pc' = "done"
  /\ UNCHANGED <<serveVars, cfgVars, clientSegs, clientRecvd, first, token, headers_sets, hs_i,
                 conns, corp, corpSegs, corpRecvd, corpRelayed, req, resp, ok,
                 last_status, lastObserved, n407, r, rounds>>

Next ==
  \/ RecvFirst
  \/ CheckFirst
  \/ Connect
  \/ TrySend
  \/ RecvResp
  \/ TunnelEstablished
  \/ NextStrategy
  \/ Exhausted
  \/ PumpSelect
  \/ PumpA
  \/ PumpB
  \/ PumpFinally
  \/ Except

Spec == Init /\ [][Next]_vars

\* ------------------------------------------------------------------------
\* Observations used by the properties
\* ------------------------------------------------------------------------
\* the bytes written to the client, in order
ClientOut == join([k \in 1..Len(clientWrites) |-> clientWrites[k].data])

IsProxyWrite(w) == w.src = "proxy"
IsRelayWrite(w) == w.src = "relay"

\* the writes that originate in the proxy itself, and the bytes pump relayed
ProxyWrites == SelectSeq(clientWrites, IsProxyWrite)
RelayedToClient ==
  LET ws == SelectSeq(clientWrites, IsRelayWrite)
  IN  join([k \in 1..Len(ws) |-> ws[k].data])

\* what follows the first blank line of a byte stream
AfterBlankLine(s) ==
  IF Contains(s, CRLFCRLF) THEN Drop(s, find(s, CRLFCRLF) + 3) ELSE << >>

IsPrefix(p, s) == Len(p) <= Len(s) /\ SubSeq(s, 1, Len(p)) = p

\* the method of the client's request: the first token of its first line
RequestMethod == split(first_line_status(first), SP, -1)[1]
IsConnectRequest == RequestMethod = <<"C","O","N","N","E","C","T">>

\* the client's first message has no request line of three tokens
Malformed ==
  first = << >> \/ Len(split(first_line_status(first), SP, -1)) < 3

\* pump was entered on corp
Relaying == corp # 0 /\ conns[corp].relay

\* ------------------------------------------------------------------------
\* C1: every strategy attempt is sent on its own fresh upstream connection
\* (the request is the first call made on it, and it carries one request
\* only); a connection whose answer was not accepted is closed and no call
\* is made on it after the close; the only connection pump is given is the
\* one whose answer was accepted.
\* ------------------------------------------------------------------------
C1_FreshConnectionPerAttempt ==
  \A c \in 1..Len(conns) :
    /\ conns[c].reqs <= 1
    /\ conns[c].reqs = 1 => conns[c].log[1] = "sendall"
    /\ conns[c].verdict = "rejected" =>
         /\ conns[c].closed
         /\ conns[c].log[Len(conns[c].log)] = "close"
         /\ ~conns[c].relay
    /\ conns[c].relay => conns[c].verdict = "accepted" /\ c = corp

\* 407, 407, 200: three connections, the third one relayed
C1_Witness ==
  /\ Len(conns) = 3
  /\ n407 = 2
  /\ conns[1].verdict = "rejected" /\ conns[2].verdict = "rejected"
  /\ conns[3].relay
  /\ pc = "pump_b"

\* ------------------------------------------------------------------------
\* C2: when the upstream has answered every strategy with a 407 and
\* handle_client has returned, the client socket is closed; and if no I/O
\* call failed, the client has been sent exactly the last 407 status line
\* observed (and the blank line) and the last opened upstream socket is
\* closed.
\* ------------------------------------------------------------------------
C2_All407 ==
  (pc = "done" /\ headers_sets # << >> /\ n407 = Len(headers_sets)) =>
    /\ client.closed
    /\ faults = 0 =>
         /\ Is407(lastObserved)
         /\ ClientOut = lastObserved \o CRLFCRLF
         /\ conns[Len(conns)].closed

\* four strategies, the last of them answered with a 407 other than the first
C2_Witness ==
  /\ pc = "done"
  /\ Len(headers_sets) = 4
  /\ n407 = 4
  /\ faults = 0
  /\ ClientOut = <<"H","T","T","P","/","1",".","1"," ","4","0","7"," ","D","e","n","i","e","d","\r","\n","\r","\n">>

\* ------------------------------------------------------------------------
\* C3: after exhaustion (of a well-formed request, no I/O call having
\* failed) the client is sent the last status line any attempt observed,
\* and 502 Bad Gateway only if no attempt observed one.
\* ------------------------------------------------------------------------
C3_LastObservedStatus ==
  (pc = "done" /\ headers_sets # << >> /\ hs_i > Len(headers_sets)
     /\ ~Malformed /\ faults = 0) =>
    ClientOut = (IF lastObserved # << >> THEN lastObserved
                 ELSE <<"H","T","T","P","/","1",".","1"," ","5","0","2"," ","B","a","d"," ","G","a","t","e","w","a","y">>) \o CRLFCRLF

\* ------------------------------------------------------------------------
\* C4: on a successful CONNECT handshake the proxy itself writes to the
\* client exactly "HTTP/1.1 200 Connection Established" and an empty line,
\* once and first, whatever the accepted upstream response was; what else
\* reaches the client are bytes the upstream sent after its response.
\* ------------------------------------------------------------------------
C4_SyntheticReply ==
  (Relaying /\ IsConnectRequest) =>
    /\ clientWrites[1] = [src |-> "proxy",
                          data |-> <<"H","T","T","P","/","1",".","1"," ","2","0","0"," ","C","o","n","n","e","c","t","i","o","n"," ","E","s","t","a","b","l","i","s","h","e","d","\r","\n","\r","\n">>]
    /\ Len(ProxyWrites) = 1
    /\ IsPrefix(resp \o RelayedToClient, corpRecvd)

\* a tunnel whose upstream response had its own reason phrase and a header
\* of its own, with bytes relayed to the client
C4_Witness ==
  /\ Relaying /\ IsConnectRequest
  /\ Contains(resp, <<"V","i","a",":"," ","p">>)
  /\ RelayedToClient # << >>

\* ------------------------------------------------------------------------
\* C5: while the tunnel of a CONNECT request is up and every byte read has
\* been passed on (the relay is about to select again, no I/O call having
\* failed), what has been written to the upstream is exactly what the
\* client has sent after the blank line of its request, and what has been
\* relayed to the client is exactly what the upstream has sent after the
\* blank line of its response.
\* ------------------------------------------------------------------------
C5_VerbatimRelay ==
  (Relaying /\ pc = "pump_select" /\ IsConnectRequest /\ faults = 0) =>
    /\ corpRelayed = AfterBlankLine(clientRecvd)
    /\ RelayedToClient = AfterBlankLine(corpRecvd)

\* ------------------------------------------------------------------------
\* C6: a first message that is empty or whose first line has fewer than
\* three tokens gets no byte written to the client (no I/O call having
\* failed), and the client socket is closed when handle_client returns.
\* ------------------------------------------------------------------------
C6_MalformedSilentClose ==
  (pc # "recv_first" /\ Malformed /\ faults = 0) =>
    /\ clientWrites = << >>
    /\ pc = "done" => client.closed

\* ------------------------------------------------------------------------
\* C7: a select that timed out (no socket readable for 60 seconds) ends the
\* relay: the loop goes to its teardown rather than to another select.
\* ------------------------------------------------------------------------
C7_IdleTimeoutEndsRelay ==
  [][(pc = "pump_b" /\ r = {}) => pc' = "pump_finally"]_vars

\* ------------------------------------------------------------------------
\* C8: the strategies, for the four combinations of the flag and the Basic
\* header: Bearer; Bearer, Bearer+Authorization; Bearer, Basic; Bearer,
\* Bearer+Authorization, Basic, Basic+Authorization -- never empty, never
\* more than four, Proxy-Authorization before Authorization.
\* ------------------------------------------------------------------------
C8_StrategyList ==
  (pc = "connect" \/ conns # << >>) =>
    LET pb == <<"P","r","o","x","y","-","A","u","t","h","o","r","i","z","a","t","i","o","n",":"," ","B","e","a","r","e","r"," ">> \o token
        ab == <<"A","u","t","h","o","r","i","z","a","t","i","o","n",":"," ","B","e","a","r","e","r"," ">> \o token
        pq == <<"P","r","o","x","y","-","A","u","t","h","o","r","i","z","a","t","i","o","n",":"," ">> \o basic_hdr
        aq == <<"A","u","t","h","o","r","i","z","a","t","i","o","n",":"," ">> \o basic_hdr
    IN  /\ headers_sets =
             CASE ~also_auth_header /\ basic_hdr = None -> << <<pb>> >>
               [] also_auth_header /\ basic_hdr = None -> << <<pb>>, <<pb, ab>> >>
               [] ~also_auth_header /\ basic_hdr # None -> << <<pb>>, <<pq>> >>
               [] also_auth_header /\ basic_hdr # None ->
                    << <<pb>>, <<pb, ab>>, <<pq>>, <<pq, aq>> >>
        /\ Len(headers_sets) \in 1..4
        /\ \A k \in 1..Len(headers_sets) :
             startswith(headers_sets[k][1], <<"P","r","o","x","y","-","A","u","t","h","o","r","i","z","a","t","i","o","n",":"," ">>)

C8_Witness ==
  /\ pc = "connect"
  /\ also_auth_header
  /\ basic_hdr # None
  /\ Len(headers_sets) = 4

\* ------------------------------------------------------------------------
\* C9: the bearer token is used with one leading "jwt_" removed
\* ------------------------------------------------------------------------
\* the token each configured bearer is to be used as
C9_Stripped ==
  CASE bearer = <<"a","b">> -> <<"a","b">>
    [] bearer = <<"j","w","t","_","a","b">> -> <<"a","b">>
    [] bearer = <<"j","w","t","_","j","w","t","_","a","b">> -> <<"j","w","t","_","a","b">>

\* "Basic " and the base64 of "u:" and the password
C9_BasicOf(pwd) ==
  CASE pwd = <<"a","b">> -> <<"B","a","s","i","c"," ","d","T","p","h","Y","g","=","=">>
    [] pwd = <<"j","w","t","_","a","b">> -> <<"B","a","s","i","c"," ","d","T","p","q","d","3","R","f","Y","W","I","=">>
    [] pwd = <<"j","w","t","_","j","w","t","_","a","b">> -> <<"B","a","s","i","c"," ","d","T","p","q","d","3","R","f","a","n","d","0","X","2","F","i">>

\* every header of every strategy is one of hdrs, and the request last sent
\* carries the headers of its strategy
C9_HeadersAmong(hdrs) ==
  /\ \A k \in 1..Len(headers_sets) : \A j \in 1..Len(headers_sets[k]) :
       headers_sets[k][j] \in hdrs
  /\ pc \in {"recv_resp", "check_status"} =>
       \A j \in 1..Len(headers_sets[hs_i]) :
         Contains(req, CRLF \o headers_sets[hs_i][j] \o CRLF)

\* C9 as claimed: every authentication header, the Basic one included, uses
\* the token without its "jwt_" prefix.
C9_AllHeadersStripped ==
  (pc = "connect" \/ conns # << >>) =>
    C9_HeadersAmong({ <<"P","r","o","x","y","-","A","u","t","h","o","r","i","z","a","t","i","o","n",":"," ","B","e","a","r","e","r"," ">> \o C9_Stripped,
                      <<"A","u","t","h","o","r","i","z","a","t","i","o","n",":"," ","B","e","a","r","e","r"," ">> \o C9_Stripped,
                      <<"P","r","o","x","y","-","A","u","t","h","o","r","i","z","a","t","i","o","n",":"," ">> \o C9_BasicOf(C9_Stripped),
                      <<"A","u","t","h","o","r","i","z","a","t","i","o","n",":"," ">> \o C9_BasicOf(C9_Stripped) })

\* C9 as amended: every Bearer header uses the token with one leading "jwt_"
\* removed (a token without the prefix unchanged); the Basic header built
\* at startup encodes the token as it was given.
C9_BearerStrippedBasicRaw ==
  (pc = "connect" \/ conns # << >>) =>
    C9_HeadersAmong({ <<"P","r","o","x","y","-","A","u","t","h","o","r","i","z","a","t","i","o","n",":"," ","B","e","a","r","e","r"," ">> \o C9_Stripped,
                      <<"A","u","t","h","o","r","i","z","a","t","i","o","n",":"," ","B","e","a","r","e","r"," ">> \o C9_Stripped,
                      <<"P","r","o","x","y","-","A","u","t","h","o","r","i","z","a","t","i","o","n",":"," ">> \o C9_BasicOf(bearer),
                      <<"A","u","t","h","o","r","i","z","a","t","i","o","n",":"," ">> \o C9_BasicOf(bearer) })

\* a doubly prefixed token, sent upstream in a Bearer and then a Basic attempt
C9_Witness ==
  /\ bearer = <<"j","w","t","_","j","w","t","_","a","b">>
  /\ basic_hdr # None
  /\ also_auth_header
  /\ hs_i = 4
  /\ pc = "recv_resp"

\* ------------------------------------------------------------------------
\* C10: for a well-formed request whose method is not CONNECT, once a
\* strategy has been accepted the proxy itself writes nothing to the client:
\* whatever the client has been sent was relayed from the upstream.
\* ------------------------------------------------------------------------
C10_NoSyntheticReplyForPlainHttp ==
  (corp # 0 /\ conns[corp].verdict = "accepted" /\ ~Malformed /\ ~IsConnectRequest
     /\ faults = 0) =>
    /\ ProxyWrites = << >>
    /\ ClientOut = RelayedToClient

\* the number of places where sub occurs in s
Occurrences(s, sub) ==
  Cardinality({k \in 1..(Len(s) - Len(sub) + 1) : SubSeq(s, k, k + Len(sub) - 1) = sub})

\* ------------------------------------------------------------------------
\* C11: for a well-formed request whose method is not CONNECT, the request
\* sent to the upstream on an attempt begins with the client's own request
\* line, does not carry the client's Proxy-Authorization header, and has
\* exactly one Proxy-Authorization header.
\* ------------------------------------------------------------------------
C11_ForwardedRequestFraming ==
  (pc \in {"recv_resp", "check_status"} /\ ~Malformed /\ ~IsConnectRequest) =>
    /\ startswith(req, first_line_status(first) \o CRLF)
    /\ ~Contains(req, <<"P","r","o","x","y","-","A","u","t","h","o","r","i","z","a","t","i","o","n",":"," ","B","o","g","u","s"," ","z">>)
    /\ Occurrences(req, <<"P","r","o","x","y","-","A","u","t","h","o","r","i","z","a","t","i","o","n",":">>) = 1

\* ------------------------------------------------------------------------
\* Failures of socket.create_connection, seen in the state: the strategies
\* exist and either no upstream socket was ever opened (line 81 raised) or
\* the last one opened is a rejected one (line 99 raised)
\* ------------------------------------------------------------------------
ConnectFailed ==
  /\ headers_sets # << >>
  /\ pc \in {"except", "done"}
  /\ conns = << >> \/ conns[Len(conns)].verdict = "rejected"

\* the number of requests sent on the first n upstream sockets
RECURSIVE RequestsSent(_)
RequestsSent(n) == IF n = 0 THEN 0 ELSE conns[n].reqs + RequestsSent(n - 1)

SetupFailed ==
  /\ pc = "done"
  /\ ~Relaying
  /\ faults > 0 \/ (conns # << >> /\ Len(split(first, SP, -1)) < 2)

\* the last n calls made on a socket
LastCalls(s, n) == SubSeq(s.log, Len(s.log) - n + 1, Len(s.log))

\* ------------------------------------------------------------------------
\* C13: an exception raised during setup ends handle_client with one attempt
\* to send "HTTP/1.1 500 Internal Server Error" to the client followed by
\* the close of the client socket: the socket is closed whether or not the
\* send succeeded, the 500 is all the client was sent when the send
\* succeeded, and nothing when it did not.
\* ------------------------------------------------------------------------
C13_SetupExceptionHandled ==
  SetupFailed =>
    /\ client.closed
    /\ Len(client.log) >= 2 /\ LastCalls(client, 2) = <<"sendall", "close">>
    /\ Occurrences(client.log, <<"close">>) = 1
    /\ IF client.broken
       THEN clientWrites = << >>
       ELSE clientWrites = << [src |-> "proxy",
                               data |-> <<"H","T","T","P","/","1",".","1"," ","5","0","0"," ","I","n","t","e","r","n","a","l"," ","S","e","r","v","e","r"," ","E","r","r","o","r","\r","\n","\r","\n">>] >>

\* the upstream failed during an attempt and the client got the 500
C13_Witness ==
  /\ SetupFailed
  /\ conns # << >> /\ conns[corp].broken
  /\ ~client.broken
  /\ ClientOut # << >>

\* the send of the 500 failed and the client socket is closed all the same
C13_WitnessSendFailed ==
  /\ SetupFailed
  /\ client.broken
  /\ client.closed

\* a socket on which shutdown and close were each called exactly once,
\* shutdown first
TornDownOnce(s) ==
  /\ Occurrences(s.log, <<"shutdown">>) = 1
  /\ Occurrences(s.log, <<"close">>) = 1
  /\ Occurrences(s.log, <<"shutdown", "close">>) = 1

\* ------------------------------------------------------------------------
\* C14: however the relay ended, when handle_client has returned each of
\* the two sockets of the relay has been shut down and then closed exactly
\* once, counting the calls handle_client makes after pump.
\* ------------------------------------------------------------------------
C14_TeardownExactlyOnce ==
  (pc = "done" /\ Relaying) =>
    /\ TornDownOnce(client)
    /\ TornDownOnce(conns[corp])

\* ------------------------------------------------------------------------
\* C15: once pump has been entered, the only thing the proxy itself ever
\* wrote to the client is the synthetic 200 that preceded the relay: every
\* later write is relayed upstream data, also after an exception from pump
\* has gone through the except clause of handle_client.
\* ------------------------------------------------------------------------
C15_SilentAfterTunnel ==
  Relaying =>
    /\ \A k \in 2..Len(clientWrites) : clientWrites[k].src = "relay"
    /\ \A k \in 1..Len(clientWrites) :
         ~Contains(clientWrites[k].data, <<"5","0","0"," ","I","n","t","e","r","n","a","l"," ","S","e","r","v","e","r"," ","E","r","r","o","r">>)
    /\ (pc = "done" /\ ~ok) => LastCalls(client, 2) = <<"sendall", "close">>

\* the upstream failed inside pump after bytes had been relayed, and the
\* except clause has run
C15_Witness ==
  /\ Relaying
  /\ pc = "done" /\ ~ok
  /\ conns[corp].broken
  /\ RelayedToClient # << >>

\* ------------------------------------------------------------------------
\* C16: a header read that ended without the blank line (end of stream, or
\* more than the limit read) is not used: such a first message is not sent
\* upstream in any form, and such an upstream response is not accepted.
\* ------------------------------------------------------------------------
C16_UnterminatedHeaderAborts ==
  /\ (pc # "recv_first" /\ ~Contains(first, CRLFCRLF)) =>
       (conns = << >> /\ req = << >>)
  /\ \A c \in 1..Len(conns) :
       (c = corp /\ ~Contains(resp, CRLFCRLF)) => conns[c].verdict # "accepted"

\* ------------------------------------------------------------------------
\* C17: when handle_client has returned from a well-formed request (no I/O
\* call having failed), the number of upstream connections it opened is the
\* number of strategy attempts it sent, and that number is between 1 and 4.
\* ------------------------------------------------------------------------
C17_OneConnectionPerAttempt ==
  (pc = "done" /\ ~Malformed /\ faults = 0) =>
    /\ Len(conns) = RequestsSent(Len(conns))
    /\ Len(conns) \in 1..4

\* the upstream socket whose answer was judged last (0: none yet)
LastJudged ==
  LET js == {c \in 1..Len(conns) : conns[c].verdict # "none"}
  IN  IF js = {} THEN 0 ELSE CHOOSE c \in js : \A d \in js : d <= c

\* ------------------------------------------------------------------------
\* C18: the strategies are sent in list order, one per connection and each
\* at most once (the c-th request sent is the c-th strategy); an answer is
\* taken as success exactly when its status line contains "200"; after a
\* success no further strategy is sent and no connection opened.
\* ------------------------------------------------------------------------
C18_OrderAndAcceptance ==
  /\ \A c \in 1..Len(conns) :
       /\ conns[c].reqs <= 1
       /\ conns[c].verdict = "accepted" => (c = Len(conns) /\ c = hs_i)
       /\ c = LastJudged =>
            (conns[c].verdict = "accepted" <=> Contains(last_status, <<"2","0","0">>))
  /\ pc \in {"recv_resp", "check_status"} =>
       (RequestsSent(Len(conns)) = hs_i /\ corp = hs_i)

\* ------------------------------------------------------------------------
\* C20: when handle_client has returned, every upstream socket it opened
\* has been closed.
\* ------------------------------------------------------------------------
C20_NoUpstreamSocketLeftOpen ==
  pc = "done" => \A c \in 1..Len(conns) : conns[c].closed

\* ------------------------------------------------------------------------
\* serve: the acceptor loop and one handler thread per accepted client.
\* Each thread runs handle_client on its own arguments and locals; here a
\* handler is followed through the calls it makes on its sockets, and every
\* socket records the threads that made a call on it.
\* ------------------------------------------------------------------------
\* number of clients that connect
MaxClients == 2

\* the strategies every handler builds from the shared configuration
NStrategies ==
  Len(build_headers_sets(normalize_token(bearer), basic_hdr, also_auth_header))

\* a socket is named by the connection it was created for and its number
\* among the sockets of that connection: <<t, 1>> is the client socket
\* accept returned for connection t, <<t, k>> with k > 1 an upstream socket
NewThread(t) == [pc |-> "recv_first", client |-> <<t, 1>>, corp |-> <<0, 0>>, hs_i |-> 0]
NewPeer == [sent |-> FALSE, answer |-> "none", closed |-> FALSE]
ClientSocket == [kind |-> "client", closed |-> FALSE, users |-> {}]
UpstreamSocket == [kind |-> "upstream", closed |-> FALSE, users |-> {}]

\* thread t makes a call on socket s; thread t closes socket s; thread t
\* opens an upstream socket
Used(ss, s, t) == [ss EXCEPT ![s[1]][s[2]].users = @ \cup {t}]
ClosedBy(ss, s, t) ==
  [ss EXCEPT ![s[1]][s[2]].users = @ \cup {t}, ![s[1]][s[2]].closed = TRUE]
Opened(ss, t) == [ss EXCEPT ![t] = Append(@, UpstreamSocket)]

\* the upstream socket handler t works on: its local corp
UpstreamOf(t) == threads[t].corp

\* a client connects to the listening socket (backlog of srv.listen)
ClientConnects ==
  /\ connected < MaxClients
  /\ connected' = connected + 1
  /\ peers' = Append(peers, NewPeer)
  /\ UNCHANGED <<hvars, accepted, threads, socks>>

\* a variant that runs handle_client in the acceptor's own thread: the next
\* accept waits for the handler to return
Accept_inline ==
  /\ accepted < connected
  /\ \A t \in 1..accepted : threads[t].pc = "done"
  /\ accepted' = accepted + 1
  /\ socks' = Append(socks, <<ClientSocket>>)
  /\ threads' = Append(threads, NewThread(accepted + 1))
  /\ UNCHANGED <<hvars, connected, peers>>

\* c, _ = srv.accept(); threading.Thread(target=handle_client, ...).start()
Accept ==
  /\ accepted < connected
  /\ accepted' = accepted + 1
  /\ socks' = Append(socks, <<ClientSocket>>)
  /\ threads' = Append(threads, NewThread(accepted + 1))
  /\ UNCHANGED <<hvars, connected, peers>>

\* the client of handler t sends its request
ClientSendsRequest(t) ==
  /\ t \in 1..connected
  /\ ~peers[t].sent
  /\ peers' = [peers EXCEPT ![t].sent = TRUE]
  /\ UNCHANGED <<hvars, connected, accepted, threads, socks>>

\* handler t: first = recv_until(client), which blocks until the client sent
HRecvFirst(t) ==
  /\ t \in 1..accepted
  /\ threads[t].pc = "recv_first"
  /\ peers[t].sent
  /\ socks' = Used(socks, threads[t].client, t)
  /\ threads' = [threads EXCEPT ![t].pc = "connect"]
  /\ UNCHANGED <<hvars, connected, accepted, peers>>

\* handler t: corp = socket.create_connection(...)
HConnect(t) ==
  /\ t \in 1..accepted
  /\ threads[t].pc = "connect"
  /\ socks' = Opened(socks, t)
  /\ threads' = [threads EXCEPT ![t].pc = "attempt",
                                ![t].corp = <<t, Len(socks[t]) + 1>>,
                                ![t].hs_i = 1]
  /\ UNCHANGED <<hvars, connected, accepted, peers>>

\* handler t: corp.sendall(req)
HTrySend(t) ==
  /\ t \in 1..accepted
  /\ threads[t].pc = "attempt"
  /\ socks' = Used(socks, UpstreamOf(t), t)
  /\ threads' = [threads EXCEPT ![t].pc = "recv_resp"]
  /\ peers' = [peers EXCEPT ![t].answer = "none"]
  /\ UNCHANGED <<hvars, connected, accepted>>

\* the upstream answers the attempt of handler t
UpstreamResponds(t) ==
  /\ t \in 1..accepted
  /\ threads[t].pc = "recv_resp"
  /\ peers[t].answer = "none"
  /\ \E a \in {"ok", "reject"} : peers' = [peers EXCEPT ![t].answer = a]
  /\ UNCHANGED <<hvars, connected, accepted, threads, socks>>

\* handler t: resp = recv_until(corp), which blocks until the upstream
\* answered; then the 200 to the client and pump, or close and reconnect
HRecvResp(t) ==
  /\ t \in 1..accepted
  /\ threads[t].pc = "recv_resp"
  /\ peers[t].answer # "none"
  /\ IF peers[t].answer = "ok"
     THEN /\ socks' = Used(Used(socks, UpstreamOf(t), t), threads[t].client, t)
          /\ threads' = [threads EXCEPT ![t].pc = "pump"]
     ELSE /\ socks' = Opened(ClosedBy(Used(socks, UpstreamOf(t), t), UpstreamOf(t), t), t)
          /\ threads' = [threads EXCEPT
               ![t].corp = <<t, Len(socks[t]) + 1>>,
               ![t].hs_i = @ + 1,
               ![t].pc = IF threads[t].hs_i + 1 > NStrategies THEN "exhausted"
                         ELSE "attempt"]
  /\ UNCHANGED <<hvars, connected, accepted, peers>>

\* handler t: the reply after exhaustion, corp.close(), client.close()
HExhausted(t) ==
  /\ t \in 1..accepted
  /\ threads[t].pc = "exhausted"
  /\ socks' = ClosedBy(ClosedBy(socks, UpstreamOf(t), t), threads[t].client, t)
  /\ threads' = [threads EXCEPT ![t].pc = "done"]
  /\ UNCHANGED <<hvars, connected, accepted, peers>>

\* a peer of the tunnel of handler t closes
PeerCloses(t) ==
  /\ t \in 1..accepted
  /\ threads[t].pc = "pump"
  /\ ~peers[t].closed
  /\ peers' = [peers EXCEPT ![t].closed = TRUE]
  /\ UNCHANGED <<hvars, connected, accepted, threads, socks>>

\* handler t: pump, which blocks in select until a peer does something, and
\* its teardown
HPump(t) ==
  /\ t \in 1..accepted
  /\ threads[t].pc = "pump"
  /\ peers[t].closed
  /\ socks' = ClosedBy(ClosedBy(socks, threads[t].client, t), UpstreamOf(t), t)
  /\ threads' = [threads EXCEPT ![t].pc = "done"]
  /\ UNCHANGED <<hvars, connected, accepted, peers>>

\* the process after startup: the configuration is fixed, no client yet
ServeInit ==
  /\ bearer = <<"j","w","t","_","a","b">>
  /\ basic_hdr = None
  /\ also_auth_header \in BOOLEAN
  /\ clientSegs = << >>
  /\ HandlerStart
  /\ ServeStart

ServeNext ==
  \/ ClientConnects
  \/ Accept
  \/ \E t \in 1..MaxClients : ClientSendsRequest(t)
  \/ \E t \in 1..MaxClients : HRecvFirst(t)
  \/ \E t \in 1..MaxClients : HConnect(t)
  \/ \E t \in 1..MaxClients : HTrySend(t)
  \/ \E t \in 1..MaxClients : UpstreamResponds(t)
  \/ \E t \in 1..MaxClients : HRecvResp(t)
  \/ \E t \in 1..MaxClients : HExhausted(t)
  \/ \E t \in 1..MaxClients : PeerCloses(t)
  \/ \E t \in 1..MaxClients : HPump(t)

ServeSpec == ServeInit /\ [][ServeNext]_vars

\* what handler t is waiting for, if anything
Blocked(t) ==
  \/ threads[t].pc = "recv_first" /\ ~peers[t].sent
  \/ threads[t].pc = "recv_resp" /\ peers[t].answer = "none"
  \/ threads[t].pc = "pump" /\ ~peers[t].closed

\* handler t can take its next step in the handshake
CanStep(t) ==
  \/ ENABLED HRecvFirst(t)
  \/ ENABLED HConnect(t)
  \/ ENABLED HTrySend(t)
  \/ ENABLED HRecvResp(t)
  \/ ENABLED HExhausted(t)
  \/ ENABLED HPump(t)

\* ------------------------------------------------------------------------
\* C19: with several clients served at once, in every interleaving: calls
\* on a socket are made only by the handler of the connection it belongs
\* to; a step changes the state of one handler at most, and only sockets of
\* that handler; and whatever other handlers are blocked on, the acceptor
\* can accept a client that has connected and a handler that is not itself
\* waiting for its peer can take its next step.
\* ------------------------------------------------------------------------
C19_SocketsOwnUse ==
  \A t \in 1..Len(socks) : \A k \in 1..Len(socks[t]) :
    socks[t][k].users \subseteq {t}

C19_NeverHeldUp ==
  /\ accepted < connected => ENABLED Accept
  /\ \A t \in 1..accepted :
       (threads[t].pc # "done" /\ ~Blocked(t)) => CanStep(t)

C19_StepIsLocal ==
  /\ \A t \in 1..accepted : \A u \in 1..accepted :
       t # u => (threads'[t] = threads[t] \/ threads'[u] = threads[u])
  /\ \A t \in 1..Len(socks) :
       socks'[t] # socks[t] => threads'[t] # threads[t]

C19_HandlersIsolated ==
  /\ [](C19_SocketsOwnUse /\ C19_NeverHeldUp)
  /\ [][C19_StepIsLocal]_vars

\* two handlers at once: one is in its relay, blocked, while the other,
\* accepted after it, has completed its handshake on sockets of its own
C19_Witness ==
  /\ accepted = 2
  /\ threads[1].pc = "pump" /\ Blocked(1)
  /\ threads[2].pc = "pump"
  /\ threads[1].corp # threads[2].corp
  /\ socks[2][threads[2].corp[2]].users = {2}

====
